---- MODULE Spec2Model ----
(***************************************************************************)
(* Model of LiteLLMWebSocketClient (src/examples/websocket_client.js):     *)
(* the registry messageHandlers, the handler closures installed by         *)
(* sendChatCompletion and ping, the ping timer, and handleMessage.         *)
(*                                                                         *)
(* Abstractions.  A JS string is a sequence of characters (the empty       *)
(* string is <<>>, which is falsy).  A request id is a number in Ids; 0    *)
(* stands for a frame without request_id.  generateUUID draws 122 random   *)
(* bits; it is modelled as returning any id it has not returned before.    *)
(* A promise is a record with its state, its value, the number of times    *)
(* its state was set and the number of calls of its resolve and reject     *)
(* functions.  Every exchange (one call of sendChatCompletion or           *)
(* ping) keeps the variables its closure captures; as ids are not reused,  *)
(* exchanges are indexed by their id.  this.ws is null or a socket; what   *)
(* the socket does with a frame handed to send is the transport's choice.  *)
(*                                                                         *)
(* Records kept beside the program's state and read by no handler: last,   *)
(* the method or callback that ran last (for a message, its type and       *)
(* request_id, or "null" / "invalid" when it is no JSON object, and the    *)
(* exception that escaped ws.onmessage or handleMessage; for a call of     *)
(* sendChatCompletion that created no exchange, the error its promise was  *)
(* rejected with); and per                                                 *)
(* exchange: routed, the non-empty deltas delivered to it in order;        *)
(* observed, the arguments of the observer's calls; handed, the number of  *)
(* frames the call gave to the transport; atSend, whether the id was a key *)
(* of the registry when it did; sent, whether the transport took the       *)
(* frame.                                                                  *)
(***************************************************************************)
EXTENDS Integers, Sequences, FiniteSets, TLC

MaxExchanges == 2
MaxChunks == 2

NoId == 0
Ids == 1..MaxExchanges

Texts == {<<>>, <<"A">>, <<"B">>}
ErrorMsgs == {"E1"}
FrameTypes == {"error", "stream_chunk", "stream_complete", "completion", "pong", "other"}

(* The data field of a frame: absent, an object without the content field, *)
(* or an object whose choices[0].delta.content (stream_chunk) or           *)
(* choices[0].message.content (completion) is the given string.            *)
NoData == [present |-> FALSE, hasContent |-> FALSE, content |-> <<>>]
EmptyObject == [present |-> TRUE, hasContent |-> FALSE, content |-> <<>>]
ContentData(t) == [present |-> TRUE, hasContent |-> TRUE, content |-> t]
ChunkPayloads == {NoData, EmptyObject} \cup {ContentData(t) : t \in Texts}
CompletionPayloads == {NoData, EmptyObject, ContentData(<<>>), ContentData(<<"A">>)}

MkFrame(t, rid, d, err) ==
    [json |-> "object", type |-> t, request_id |-> rid, data |-> d, error |-> err]
Frames ==
    {MkFrame("error", rid, NoData, m) : rid \in Ids \cup {NoId}, m \in ErrorMsgs}
    \cup {MkFrame("stream_chunk", rid, d, "") : rid \in Ids \cup {NoId}, d \in ChunkPayloads}
    \cup {MkFrame("completion", rid, d, "") : rid \in Ids \cup {NoId},
                                               d \in CompletionPayloads}
    \cup {MkFrame(t, rid, NoData, "") : t \in FrameTypes \ {"error", "stream_chunk", "completion"},
                                         rid \in Ids \cup {NoId}}

(* What else the transport can deliver as event.data: the text "null",     *)
(* which JSON.parse turns into null, and a text that is no JSON, on which  *)
(* JSON.parse raises.  Messages are the texts delivered, each given by     *)
(* what JSON.parse makes of it.                                            *)
JsonNull == [MkFrame("null", NoId, NoData, "") EXCEPT !.json = "null"]
NotJson == [MkFrame("invalid", NoId, NoData, "") EXCEPT !.json = "invalid"]
Messages == Frames \cup {JsonNull, NotJson}

(* JavaScript values a promise is settled with: undefined, a string, the  *)
(* payload object, an Error with its message.                              *)
Undefined == <<"undefined">>
StringVal(t) == <<"string", t>>
ObjectVal(d) == <<"object", d>>
ErrorVal(m) == <<"Error", m>>

(* if (x.choices && x.choices[0]?.<delta|message>?.content): the content   *)
(* is there and is not the empty string.                                   *)
Truthy(d) == d.present /\ d.hasContent /\ Len(d.content) > 0

VARIABLES ws, messageHandlers, exchanges, last

vars == <<ws, messageHandlers, exchanges, last>>

NewPromise == [state |-> "pending", value |-> Undefined, settled |-> 0, calls |-> 0]

(* The resolving functions of a promise: the first call settles it, later  *)
(* calls of either do nothing.                                             *)
resolve(p, v) ==
    IF p.state = "pending"
    THEN [state |-> "resolved", value |-> v, settled |-> p.settled + 1,
          calls |-> p.calls + 1]
    ELSE [p EXCEPT !.calls = @ + 1]

reject(p, v) ==
    IF p.state = "pending"
    THEN [state |-> "rejected", value |-> v, settled |-> p.settled + 1,
          calls |-> p.calls + 1]
    ELSE [p EXCEPT !.calls = @ + 1]

NoEvent == [op |-> "none", type |-> "", rid |-> NoId, thrown |-> "none"]
Event(op, type, rid, thrown) == [op |-> op, type |-> type, rid |-> rid, thrown |-> thrown]

(* The variables a handler reads and writes: the registry (the set of its  *)
(* keys), the exchanges' captured variables, and the exception that        *)
(* escapes the call, if any.                                               *)
State(mh, ex) == [mh |-> mh, ex |-> ex, thrown |-> "none"]

MapSet(st, id) == [st EXCEPT !.mh = @ \cup {id}]
MapDelete(st, id) == [st EXCEPT !.mh = @ \ {id}]
MapHas(st, id) == id \in st.mh

NewExchange(mode, onChunk) ==
    [mode |-> mode, onChunk |-> onChunk, fullResponse |-> <<>>,
     promise |-> NewPromise, timer |-> "none", sent |-> FALSE,
     handed |-> 0, atSend |-> FALSE,
     observed |-> <<>>, routed |-> <<>>]
Unissued == NewExchange("none", FALSE)

(* What JSON.stringify(request) can do with the caller's request: return  *)
(* the text, raise a TypeError (a circular messages array, a BigInt        *)
(* parameter), or raise what the request's own code raises or a RangeError *)
(* of the engine (a toJSON or getter that throws, a nesting too deep),     *)
(* which "StringifyError" stands for.                                      *)
StringifyOutcomes == {"ok", "TypeError", "StringifyError"}

(* What raises in this.ws.send(JSON.stringify(request)) before the         *)
(* transport is called.                                                    *)
RaisedBeforeTransport == StringifyOutcomes \ {"ok"}

(* this.ws.send(JSON.stringify(request)): a TypeError when this.ws is      *)
(* null; else what JSON.stringify raises, if it does; else whatever the    *)
(* transport does with the frame: it takes it or it raises ("SendError").  *)
SendResult(w, stringify, ok) ==
    IF w = "null" THEN "TypeError"
    ELSE IF stringify # "ok" THEN stringify
    ELSE IF ok THEN "ok" ELSE "SendError"

(* The branches of the closure sendChatCompletion installs for requestId.  *)
ChatOnError(st, requestId, data) ==
    MapDelete([st EXCEPT !.ex[requestId].promise = reject(@, ErrorVal(data.error))],
              requestId)

(* The stream_chunk branch, had it put the new text in front. *)
ChatOnStreamChunkPrepends(st, requestId, data, raises) ==
    LET chunk == data.data IN
    IF ~chunk.present
    THEN [st EXCEPT !.thrown = "TypeError"]
    ELSE IF Truthy(chunk)
    THEN LET content == chunk.content
             st1 == [st EXCEPT !.ex[requestId].fullResponse = content \o @]
         IN  IF st.ex[requestId].onChunk
             THEN [st1 EXCEPT !.ex[requestId].observed = Append(@, content),
                              !.thrown = IF raises THEN "ObserverError" ELSE "none"]
             ELSE st1
    ELSE st

(* The stream_chunk branch, had it called the observer before appending:   *)
(* an observer that raises then leaves fullResponse without the text.      *)
ChatOnStreamChunkNotifiesFirst(st, requestId, data, raises) ==
    LET chunk == data.data IN
    IF ~chunk.present
    THEN [st EXCEPT !.thrown = "TypeError"]
    ELSE IF Truthy(chunk)
    THEN LET content == chunk.content
             st1 == [st EXCEPT !.ex[requestId].fullResponse = @ \o content]
         IN  IF st.ex[requestId].onChunk
             THEN IF raises
                  THEN [st EXCEPT !.ex[requestId].observed = Append(@, content),
                                  !.thrown = "ObserverError"]
                  ELSE [st1 EXCEPT !.ex[requestId].observed = Append(@, content)]
             ELSE st1
    ELSE st

(* The stream_chunk branch, had fullResponse been one variable of the      *)
(* client instead of one per call.                                         *)
ChatOnStreamChunkShared(st, requestId, data, raises) ==
    LET chunk == data.data IN
    IF ~chunk.present
    THEN [st EXCEPT !.thrown = "TypeError"]
    ELSE IF Truthy(chunk)
    THEN LET content == chunk.content
             st1 == [st EXCEPT !.ex = [i \in DOMAIN @ |->
                        IF @[i].mode = "streaming" /\ i \in st.mh
                        THEN [@[i] EXCEPT !.fullResponse = @ \o content]
                        ELSE @[i]]]
         IN  IF st.ex[requestId].onChunk
             THEN [st1 EXCEPT !.ex[requestId].observed = Append(@, content),
                              !.thrown = IF raises THEN "ObserverError" ELSE "none"]
             ELSE st1
    ELSE st

ChatOnStreamChunk(st, requestId, data, raises) ==
    LET chunk == data.data IN
    IF ~chunk.present
    THEN [st EXCEPT !.thrown = "TypeError"]
    ELSE IF Truthy(chunk)
    THEN LET content == chunk.content
             st1 == [st EXCEPT !.ex[requestId].fullResponse = @ \o content]
         IN  IF st.ex[requestId].onChunk
             THEN [st1 EXCEPT !.ex[requestId].observed = Append(@, content),
                              !.thrown = IF raises THEN "ObserverError" ELSE "none"]
             ELSE st1
    ELSE st

ChatOnStreamComplete(st, requestId) ==
    MapDelete([st EXCEPT !.ex[requestId].promise =
                   resolve(@, StringVal(st.ex[requestId].fullResponse))],
              requestId)

ChatOnCompletion(st, requestId, data) ==
    LET completion == data.data IN
    IF ~completion.present
    THEN [st EXCEPT !.thrown = "TypeError"]
    ELSE MapDelete([st EXCEPT !.ex[requestId].promise =
                        resolve(@, IF Truthy(completion)
                                   THEN StringVal(completion.content)
                                   ELSE ObjectVal(completion))],
                   requestId)

ChatHandler(st, requestId, data, raises) ==
    LET stream == st.ex[requestId].mode = "streaming" IN
    IF data.type = "error" THEN ChatOnError(st, requestId, data)
    ELSE IF data.type = "stream_chunk" /\ stream
    THEN ChatOnStreamChunk(st, requestId, data, raises)
    ELSE IF data.type = "stream_complete" /\ stream
    THEN ChatOnStreamComplete(st, requestId)
    ELSE IF data.type = "completion" /\ ~stream
    THEN ChatOnCompletion(st, requestId, data)
    ELSE st

(* ping's closure, had it an error branch like the one of                  *)
(* sendChatCompletion's closure.                                           *)
PingHandlerRejectsOnError(st, pingId, data) ==
    IF data.type = "pong"
    THEN MapDelete([st EXCEPT !.ex[pingId].promise = resolve(@, Undefined)], pingId)
    ELSE IF data.type = "error"
    THEN MapDelete([st EXCEPT !.ex[pingId].promise = reject(@, ErrorVal(data.error))],
                   pingId)
    ELSE st

(* The closure ping installs for pingId. *)
PingHandler(st, pingId, data) ==
    IF data.type = "pong"
    THEN MapDelete([st EXCEPT !.ex[pingId].promise = resolve(@, Undefined)], pingId)
    ELSE st

(* The timer callback without the has() test. *)
PingTimeoutUnguarded(st, pingId) ==
    [MapDelete(st, pingId) EXCEPT
         !.ex[pingId].promise = reject(@, ErrorVal("Ping timeout"))]

(* The timer callback, had it emptied the registry                         *)
(* (messageHandlers.clear()) instead of deleting its own id.               *)
PingTimeoutClearsRegistry(st, pingId) ==
    IF MapHas(st, pingId)
    THEN [st EXCEPT !.mh = {},
                    !.ex[pingId].promise = reject(@, ErrorVal("Ping timeout"))]
    ELSE st

(* The timer callback, had it rejected without deleting the handler. *)
PingTimeoutKeepsHandler(st, pingId) ==
    IF MapHas(st, pingId)
    THEN [st EXCEPT !.ex[pingId].promise = reject(@, ErrorVal("Ping timeout"))]
    ELSE st

(* The callback ping hands to setTimeout. *)
PingTimeout(st, pingId) ==
    IF MapHas(st, pingId)
    THEN [MapDelete(st, pingId) EXCEPT
              !.ex[pingId].promise = reject(@, ErrorVal("Ping timeout"))]
    ELSE st

(* this.messageHandlers.get(requestId)(data): the closure stored under the *)
(* id is the one its exchange installed.                                   *)
Dispatch(st, requestId, data, raises) ==
    IF st.ex[requestId].mode = "heartbeat"
    THEN PingHandler(st, requestId, data)
    ELSE ChatHandler(st, requestId, data, raises)

(* handleMessage without the has() test: get() of a missing key returns    *)
(* undefined, and calling it raises.                                       *)
handleMessageNoHas(st, data, raises) ==
    LET requestId == data.request_id IN
    IF data.json = "null"
    THEN [st EXCEPT !.thrown = "TypeError"]
    ELSE IF requestId # NoId
    THEN IF MapHas(st, requestId)
         THEN Dispatch(st, requestId, data, raises)
         ELSE [st EXCEPT !.thrown = "TypeError"]
    ELSE st

(* data.request_id raises a TypeError when data is null. *)
handleMessage(st, data, raises) ==
    LET requestId == data.request_id IN
    IF data.json = "null"
    THEN [st EXCEPT !.thrown = "TypeError"]
    ELSE IF requestId # NoId /\ MapHas(st, requestId)
    THEN Dispatch(st, requestId, data, raises)
    ELSE st

(* ws.onmessage: JSON.parse(event.data), which raises a SyntaxError on a   *)
(* text that is no JSON, then handleMessage.                               *)
onmessage(st, event, raises) ==
    IF event.json = "invalid"
    THEN [st EXCEPT !.thrown = "SyntaxError"]
    ELSE handleMessage(st, event, raises)

(* this.ws.send(JSON.stringify({..., request_id: id})) with outcome r.     *)
(* With this.ws null, or a request JSON.stringify raises on, the statement *)
(* raises before the transport is called.                                  *)
(* Otherwise one frame is handed to the transport, which takes it or       *)
(* raises; atSend records whether id was a key of the registry then.       *)
send(st, id, r) ==
    IF r \in RaisedBeforeTransport
    THEN [st EXCEPT !.thrown = r]
    ELSE [st EXCEPT !.ex[id].handed = @ + 1,
                    !.ex[id].atSend = MapHas(st, id),
                    !.ex[id].sent = (r = "ok"),
                    !.thrown = IF r = "ok" THEN "none" ELSE r]

(* What the Promise constructor does when its executor throws: the promise *)
(* is rejected with the exception, and nothing escapes the constructor.    *)
ExecutorThrew(st, id) ==
    [st EXCEPT !.ex[id].promise = reject(@, ErrorVal(st.thrown)), !.thrown = "none"]

(* sendChatCompletion, had it sent the request before installing the       *)
(* handler.                                                                *)
sendChatCompletionSendsFirst(st, requestId, stream, onChunk, r) ==
    LET x == NewExchange(IF stream THEN "streaming" ELSE "unary", onChunk)
        st1 == send([st EXCEPT !.ex[requestId] = x], requestId, r)
    IN  IF st1.thrown = "none"
        THEN MapSet(st1, requestId)
        ELSE ExecutorThrew(st1, requestId)

(* The executor of sendChatCompletion's promise: install the handler, then *)
(* send.                                                                   *)
sendChatCompletion(st, requestId, stream, onChunk, r) ==
    LET x == NewExchange(IF stream THEN "streaming" ELSE "unary", onChunk)
        st1 == MapSet([st EXCEPT !.ex[requestId] = x], requestId)
        st2 == send(st1, requestId, r)
    IN  IF st2.thrown = "none"
        THEN st2
        ELSE ExecutorThrew(st2, requestId)

(* ping, had it wrapped send in a try/catch that only logs: the handler is *)
(* installed, nothing is armed and the promise stays pending.              *)
pingIgnoresSendFailure(st, pingId, r) ==
    LET x == NewExchange("heartbeat", FALSE)
        st1 == MapSet([st EXCEPT !.ex[pingId] = x], pingId)
        st2 == send(st1, pingId, r)
    IN  IF st2.thrown = "none"
        THEN [st2 EXCEPT !.ex[pingId].timer = "armed"]
        ELSE [st2 EXCEPT !.thrown = "none"]

(* The executor of ping's promise: install the handler, send, arm the      *)
(* timer.  When send raises, the statements after it do not run.           *)
ping(st, pingId, r) ==
    LET x == NewExchange("heartbeat", FALSE)
        st1 == MapSet([st EXCEPT !.ex[pingId] = x], pingId)
        st2 == send(st1, pingId, r)
    IN  IF st2.thrown = "none"
        THEN [st2 EXCEPT !.ex[pingId].timer = "armed"]
        ELSE ExecutorThrew(st2, pingId)

Issued == {i \in Ids : exchanges[i].mode # "none"}
generateUUID == Ids \ Issued

Here == State(messageHandlers, exchanges)

(* Non-empty deltas routed so far, over all exchanges. *)
RECURSIVE SumLen(_, _)
SumLen(ex, S) ==
    IF S = {} THEN 0
    ELSE LET i == CHOOSE j \in S : TRUE IN Len(ex[i].routed) + SumLen(ex, S \ {i})

Init ==
    /\ ws = "null"
    /\ messageHandlers = {}
    /\ exchanges = [i \in Ids |-> Unissued]
    /\ last = NoEvent

(* connect(): new WebSocket(...) is assigned to this.ws, unless require or *)
(* the constructor raises inside the executor: connect's promise is then   *)
(* rejected, this.ws keeps its value and nothing escapes.                  *)
Connect ==
    /\ \E constructed \in BOOLEAN : ws' = IF constructed THEN "socket" ELSE ws
    /\ last' = Event("connect", "", NoId, "none")
    /\ UNCHANGED <<messageHandlers, exchanges>>

OnOpen ==
    /\ ws = "socket"
    /\ last' = Event("onopen", "", NoId, "none")
    /\ UNCHANGED <<ws, messageHandlers, exchanges>>

OnError ==
    /\ ws = "socket"
    /\ last' = Event("onerror", "", NoId, "none")
    /\ UNCHANGED <<ws, messageHandlers, exchanges>>

(* ws.onclose, had it ended the exchanges in flight: every registered      *)
(* handler dropped and its promise rejected.                               *)
OnCloseRejectsPending ==
    /\ ws = "socket"
    /\ messageHandlers' = {}
    /\ exchanges' = [i \in Ids |->
                         IF i \in messageHandlers
                         THEN [exchanges[i] EXCEPT
                                   !.promise = reject(@, ErrorVal("Connection closed"))]
                         ELSE exchanges[i]]
    /\ last' = Event("onclose", "", NoId, "none")
    /\ UNCHANGED ws

OnClose ==
    /\ ws = "socket"
    /\ last' = Event("onclose", "", NoId, "none")
    /\ UNCHANGED <<ws, messageHandlers, exchanges>>

Disconnect ==
    /\ last' = Event("disconnect", "", NoId, "none")
    /\ UNCHANGED <<ws, messageHandlers, exchanges>>

(* const {model, messages, stream, ..., onChunk, ...rest} = options: a     *)
(* TypeError when options is undefined or null, or what a getter of        *)
(* options raises ("OptionsError" stands for an error of another class).   *)
DestructureOutcomes == {"ok", "TypeError", "OptionsError"}

(* A call of sendChatCompletion.  When the destructuring of options raises *)
(* the async method returns a promise rejected with that error before      *)
(* generateUUID is called: no exchange, no handler, no frame.  Otherwise   *)
(* the calls drawn: an observer is supplied to streaming requests only (a  *)
(* unary handler never reads onChunk); the request is one JSON.stringify   *)
(* serialises or one it raises on.                                         *)
SendChatCompletion ==
    /\ \E options \in DestructureOutcomes :
         IF options # "ok"
         THEN /\ last' = Event("sendChatCompletion", options, NoId, "none")
              /\ UNCHANGED <<messageHandlers, exchanges>>
         ELSE \E id \in generateUUID, stream \in BOOLEAN, onChunk \in BOOLEAN,
                 stringify \in StringifyOutcomes, ok \in BOOLEAN :
                /\ onChunk => stream
                /\ LET st == sendChatCompletion(Here, id, stream, onChunk,
                                                SendResult(ws, stringify, ok)) IN
                   /\ messageHandlers' = st.mh
                   /\ exchanges' = st.ex
                   /\ last' = Event("sendChatCompletion", "", id, st.thrown)
    /\ UNCHANGED ws

(* ping's frame {type, request_id} is always serialisable. *)
Ping ==
    /\ \E id \in generateUUID, ok \in BOOLEAN :
         LET st == ping(Here, id, SendResult(ws, "ok", ok)) IN
         /\ messageHandlers' = st.mh
         /\ exchanges' = st.ex
         /\ last' = Event("ping", "", id, st.thrown)
    /\ UNCHANGED ws

TimerFire ==
    \E id \in Ids :
        /\ exchanges[id].timer = "armed"
        /\ LET st == PingTimeout(Here, id) IN
           /\ messageHandlers' = st.mh
           /\ exchanges' = [st.ex EXCEPT ![id].timer = "fired"]
           /\ last' = Event("timer", "", id, st.thrown)
        /\ UNCHANGED ws

(* A stream_chunk frame that carries a non-empty text delta to a           *)
(* registered streaming exchange.  Such frames are recorded, in arrival    *)
(* order, in the exchange's field routed, which no handler reads.          *)
RoutesDelta(data) ==
    /\ data.request_id \in messageHandlers
    /\ exchanges[data.request_id].mode = "streaming"
    /\ data.type = "stream_chunk"
    /\ data.data.present /\ data.data.hasContent /\ data.data.content # <<>>

(* What the observer may do when the frame makes the handler call it. *)
ObserverOutcomes(data) ==
    IF RoutesDelta(data) /\ exchanges[data.request_id].onChunk
    THEN BOOLEAN ELSE {FALSE}

(* A message arrives: ws.onmessage parses it and calls handleMessage.  The *)
(* method is public and reads nothing of this.ws, so a parsed value is     *)
(* handled the same way whatever the socket's state; a text that is no     *)
(* JSON can only come through the socket's onmessage.  MaxChunks bounds    *)
(* the non-empty deltas delivered in a run.                                *)
HandleMessage ==
    \E data \in Messages :
        /\ data.json = "invalid" => ws = "socket"
        /\ RoutesDelta(data) => SumLen(exchanges, Ids) < MaxChunks
        /\ \E raises \in ObserverOutcomes(data) :
             LET st == onmessage(Here, data, raises) IN
             /\ messageHandlers' = st.mh
             /\ exchanges' = IF RoutesDelta(data)
                             THEN [st.ex EXCEPT ![data.request_id].routed =
                                                    Append(@, data.data.content)]
                             ELSE st.ex
             /\ last' = Event("frame", data.type, data.request_id, st.thrown)
        /\ UNCHANGED ws

Next ==
    \/ Connect
    \/ OnOpen
    \/ OnError
    \/ OnClose
    \/ Disconnect
    \/ SendChatCompletion
    \/ Ping
    \/ TimerFire
    \/ HandleMessage

Spec == Init /\ [][Next]_vars

(* The event loop runs a timer callback once its delay has passed. *)
FairSpec == Spec /\ WF_vars(TimerFire)

----------------------------------------------------------------------------
(* Vocabulary of the properties. *)
Registered(id) == id \in messageHandlers
Pending(id) == exchanges[id].promise.state = "pending"
IsMode(id, m) == exchanges[id].mode = m
TimeoutError == ErrorVal("Ping timeout")
SendFailed(id) == exchanges[id].mode # "none" /\ ~exchanges[id].sent

RECURSIVE Concat(_)
Concat(ss) == IF ss = <<>> THEN <<>> ELSE Head(ss) \o Concat(Tail(ss))

----------------------------------------------------------------------------
(* C1: every id in the registry belongs to an exchange whose promise is    *)
(* still unsettled; a settled exchange is never a key of the registry.     *)
C1_RegistryHoldsOnlyUnsettled ==
    \A id \in messageHandlers : Pending(id)

(* C2: the promise of every exchange is settled at most once, whatever the *)
(* order of frames and timer firings: its state is set at most one time,   *)
(* so it is never both resolved and rejected, nor resolved twice, nor      *)
(* rejected twice.  For an exchange whose frame the transport took, the    *)
(* handlers and the timer see to it themselves: resolve or reject is       *)
(* called at most once, so its success path and its failure path are never *)
(* both taken.                                                             *)
C2_SettledAtMostOnce ==
    \A id \in Ids :
        /\ exchanges[id].promise.settled <= 1
        /\ exchanges[id].promise.settled = 0 <=> Pending(id)
        /\ exchanges[id].sent =>
              exchanges[id].promise.calls = exchanges[id].promise.settled

(* A heartbeat whose pong won the race and whose timer fired afterwards    *)
(* without calling reject, next to a request whose send failed and whose   *)
(* handler later ran on a terminal frame: a second call that the promise   *)
(* ignored.                                                                *)
C2_Witness ==
    \E a, b \in Ids :
        /\ IsMode(a, "heartbeat")
        /\ exchanges[a].sent
        /\ exchanges[a].promise.state = "resolved"
        /\ exchanges[a].promise.calls = 1
        /\ exchanges[a].timer = "fired"
        /\ IsMode(b, "streaming")
        /\ SendFailed(b)
        /\ ~Registered(b)
        /\ exchanges[b].promise.state = "rejected"
        /\ exchanges[b].promise.calls = 2

----------------------------------------------------------------------------
(* The step just taken handled a frame of type t carrying id, and the      *)
(* handler returned normally / the step was id's timer callback.           *)
FrameStep(id, t) ==
    last' = Event("frame", t, id, "none")
TimerStep(id) ==
    last'.op = "timer" /\ last'.rid = id

(* The frame type that ends an exchange of the given mode with success. *)
SuccessType(m) ==
    CASE m = "streaming" -> "stream_complete"
      [] m = "unary" -> "completion"
      [] m = "heartbeat" -> "pong"
      [] OTHER -> "none"

(* C3: after a terminal event for a live exchange id (the success frame of *)
(* its mode, a matching error frame, or its heartbeat timeout) id is       *)
(* absent from the registry, so that every later frame carrying id is      *)
(* dropped.                                                                *)
C3_TerminalEventRemoves ==
    [][\A id \in Ids :
          (/\ Registered(id) /\ Pending(id)
           /\ \/ FrameStep(id, "error")
              \/ FrameStep(id, SuccessType(exchanges[id].mode))
              \/ TimerStep(id))
          => (~Registered(id)' /\ ~Pending(id)')]_vars

(* C4: an error frame whose request_id matches a live exchange rejects the *)
(* exchange's promise with the carried error and removes the exchange, in  *)
(* every mode: streaming, unary and heartbeat.                             *)
C4_ErrorFrameRejectsAnyMode ==
    [][\A id \in Ids :
          (Registered(id) /\ Pending(id) /\ FrameStep(id, "error"))
          => (/\ ~Registered(id)'
              /\ exchanges'[id].promise.state = "rejected"
              /\ \E m \in ErrorMsgs : exchanges'[id].promise.value = ErrorVal(m))]_vars

(* C5: for a heartbeat whose timer is armed, pong and timeout exclude each *)
(* other.  A pong routed first resolves the promise and removes the        *)
(* exchange, and the timer firing afterwards changes nothing of it; the    *)
(* timer firing first rejects the promise with the timeout error and       *)
(* removes the exchange, and a pong arriving afterwards is dropped: it     *)
(* changes neither the registry nor any exchange and raises nothing.       *)
C5_PongAndTimeoutExclusive ==
    [][\A id \in Ids :
          IsMode(id, "heartbeat") =>
            /\ (Registered(id) /\ exchanges[id].timer = "armed" /\ FrameStep(id, "pong"))
               => (/\ exchanges'[id].promise.state = "resolved"
                   /\ exchanges'[id].promise.value = Undefined
                   /\ ~Registered(id)')
            /\ (Registered(id) /\ TimerStep(id))
               => (/\ exchanges'[id].promise.state = "rejected"
                   /\ exchanges'[id].promise.value = TimeoutError
                   /\ ~Registered(id)')
            /\ (exchanges[id].promise.state = "resolved" /\ TimerStep(id))
               => (/\ exchanges'[id].promise = exchanges[id].promise
                   /\ messageHandlers' = messageHandlers)
            /\ (/\ exchanges[id].timer = "fired"
                /\ exchanges[id].promise.state = "rejected"
                /\ last'.op = "frame" /\ last'.type = "pong" /\ last'.rid = id)
               => (/\ exchanges' = exchanges
                   /\ messageHandlers' = messageHandlers
                   /\ last'.thrown = "none")]_vars

(* One heartbeat resolved by its pong whose timer fired later, and another *)
(* rejected by its timer for which a pong has just been handled.           *)
C5_Witness ==
    \E a, b \in Ids :
        /\ IsMode(a, "heartbeat")
        /\ exchanges[a].promise.state = "resolved"
        /\ exchanges[a].timer = "fired"
        /\ IsMode(b, "heartbeat")
        /\ exchanges[b].promise = [state |-> "rejected", value |-> TimeoutError, settled |-> 1, calls |-> 1]
        /\ last = Event("frame", "pong", b, "none")

----------------------------------------------------------------------------
(* C6: when stream_complete arrives for a live streaming exchange, its     *)
(* promise resolves with the concatenation, in arrival order, of the       *)
(* non-empty deltas routed to it (the empty string when there were none),  *)
(* and the exchange is removed; the observer, if supplied, has been called *)
(* once per non-empty delta, with that delta, in the same order, and never *)
(* with an empty delta; without an observer there are no calls.            *)
C6_StreamingConcatenation ==
    /\ [](\A id \in Ids :
            IsMode(id, "streaming") =>
              /\ exchanges[id].fullResponse = Concat(exchanges[id].routed)
              /\ exchanges[id].observed =
                     IF exchanges[id].onChunk THEN exchanges[id].routed ELSE <<>>
              /\ \A i \in 1..Len(exchanges[id].observed) :
                     exchanges[id].observed[i] # <<>>)
    /\ [][\A id \in Ids :
            (/\ IsMode(id, "streaming") /\ Registered(id) /\ Pending(id)
             /\ FrameStep(id, "stream_complete"))
            => (/\ exchanges'[id].promise =
                      [state |-> "resolved",
                       value |-> StringVal(Concat(exchanges[id].routed)),
                       settled |-> 1, calls |-> 1]
                /\ exchanges'[id].observed = exchanges[id].observed
                /\ ~Registered(id)')]_vars

(* A stream with an observer that received "A" then "B" and has just been  *)
(* completed: resolved with "AB", the observer called with "A" then "B".   *)
C6_Witness ==
    \E id \in Ids :
        /\ IsMode(id, "streaming")
        /\ exchanges[id].onChunk
        /\ exchanges[id].promise.state = "resolved"
        /\ exchanges[id].promise.value = StringVal(<<"A", "B">>)
        /\ exchanges[id].observed = << <<"A">>, <<"B">> >>
        /\ last = Event("frame", "stream_complete", id, "none")

(* C7: a completion frame for a live unary exchange resolves the promise   *)
(* and removes the exchange; the value is the message content whenever the *)
(* payload has the content field, the empty string included, and the raw   *)
(* payload only when the field is absent.                                  *)
C7_UnaryResolvesWithContent ==
    [][\A id \in Ids :
          (/\ IsMode(id, "unary") /\ Registered(id) /\ Pending(id)
           /\ FrameStep(id, "completion"))
          => (/\ ~Registered(id)'
              /\ exchanges'[id].promise.state = "resolved"
              /\ LET v == exchanges'[id].promise.value IN
                 \/ v[1] = "string"
                 \/ v[1] = "object" /\ ~v[2].hasContent)]_vars

(* C8: handling a frame whose request_id is X changes only exchange X:     *)
(* every other exchange keeps its captured variables, its promise, its     *)
(* observer calls and its registry entry; and a streaming exchange that    *)
(* resolved did so with the concatenation of the deltas routed to it.      *)
C8_FrameChangesOnlyItsExchange ==
    /\ [][last'.op = "frame" =>
            \A y \in Ids :
                y # last'.rid =>
                  /\ exchanges'[y] = exchanges[y]
                  /\ Registered(y)' <=> Registered(y)]_vars
    /\ [](\A id \in Ids :
            (IsMode(id, "streaming") /\ exchanges[id].promise.state = "resolved")
            => exchanges[id].promise.value = StringVal(Concat(exchanges[id].routed)))

(* Two streaming exchanges outstanding together, each with one delta: one  *)
(* has just resolved with its own "A" while the other, still live, holds   *)
(* its own "B".                                                            *)
C8_Witness ==
    \E a, b \in Ids :
        /\ a # b
        /\ IsMode(a, "streaming") /\ IsMode(b, "streaming")
        /\ exchanges[a].promise.state = "resolved"
        /\ exchanges[a].promise.value = StringVal(<<"A">>)
        /\ Registered(b) /\ Pending(b)
        /\ exchanges[b].fullResponse = <<"B">>
        /\ last = Event("frame", "stream_complete", a, "none")

(* C9: a frame (a decoded JSON object) without request_id, or whose        *)
(* request_id is no key of the registry, has no effect whatever its type:  *)
(* the registry and every exchange (promise, accumulator, observer calls)  *)
(* are unchanged and handleMessage raises nothing.                         *)
C9_UnmatchedFrameNoEffect ==
    [][(/\ last'.op = "frame" /\ last'.type \in FrameTypes
        /\ (last'.rid = NoId \/ ~Registered(last'.rid)))
       => (/\ messageHandlers' = messageHandlers
           /\ exchanges' = exchanges
           /\ last'.thrown = "none")]_vars

(* A frame bearing the id of an exchange that already ended has just been  *)
(* handled while another exchange is live.                                 *)
C9_Witness ==
    /\ last.op = "frame"
    /\ last.rid # NoId
    /\ ~Registered(last.rid)
    /\ exchanges[last.rid].mode # "none"
    /\ messageHandlers # {}

(* C10: every heartbeat exchange eventually leaves the registry, the       *)
(* timer being weakly fair, also when the transport's send fails.          *)
C10_HeartbeatLeavesRegistry ==
    \A id \in Ids :
        (IsMode(id, "heartbeat") /\ Registered(id)) ~> ~Registered(id)

----------------------------------------------------------------------------
(* C11: the heartbeat timer is cancelled on every terminal transition of   *)
(* its exchange: in no reachable state is a timer armed for a heartbeat    *)
(* whose promise is already settled (in particular after its pong).        *)
C11_NoArmedTimerOnceSettled ==
    \A id \in Ids :
        (IsMode(id, "heartbeat") /\ ~Pending(id)) => exchanges[id].timer # "armed"

----------------------------------------------------------------------------
(* C13: a close or error event of the transport, after connect created it, *)
(* settles no promise and leaves the registry as it was: every exchange    *)
(* live before the event is live after it, with the same accumulator.      *)
C13_CloseAndErrorSettleNothing ==
    [][last'.op \in {"onclose", "onerror"} =>
          /\ messageHandlers' = messageHandlers
          /\ \A id \in Ids :
                /\ exchanges'[id].promise = exchanges[id].promise
                /\ (Registered(id) /\ Pending(id))
                   => (/\ Registered(id)' /\ Pending(id)'
                       /\ exchanges'[id].fullResponse = exchanges[id].fullResponse)]_vars

(* The transport has just closed while a stream that already accumulated   *)
(* "A" and a heartbeat with its timer armed are both live.                 *)
C13_Witness ==
    /\ last.op = "onclose"
    /\ \E a, b \in Ids :
          /\ IsMode(a, "streaming") /\ Registered(a) /\ Pending(a)
          /\ exchanges[a].fullResponse = <<"A">>
          /\ IsMode(b, "heartbeat") /\ Registered(b) /\ Pending(b)
          /\ exchanges[b].timer = "armed"

----------------------------------------------------------------------------
(* The step just taken was the call of sendChatCompletion or ping that     *)
(* issued id.                                                              *)
IssueStep(id) ==
    last'.op \in {"sendChatCompletion", "ping"} /\ last'.rid = id

(* C14: when the send statement of sendChatCompletion or ping raises (the  *)
(* transport's send raises, the call is made before connect() created the  *)
(* transport, which always fails, or the request cannot be serialised),    *)
(* the promise the call returns is rejected with that error (the           *)
(* transport's own whenever the frame reached it), nothing escapes the     *)
(* call, and the promise of no other exchange is settled.                  *)
C14_SendFailureRejectsCaller ==
    [][\A id \in Ids :
          IssueStep(id) =>
            /\ ws = "null" => ~exchanges'[id].sent
            /\ ~exchanges'[id].sent =>
                 /\ exchanges'[id].promise.state = "rejected"
                 /\ exchanges'[id].promise.settled = 1
                 /\ exchanges'[id].handed = 1
                    => exchanges'[id].promise.value = ErrorVal("SendError")
                 /\ exchanges'[id].handed = 0
                    => \E e \in RaisedBeforeTransport :
                          exchanges'[id].promise.value = ErrorVal(e)
                 /\ ws = "null"
                    => (/\ exchanges'[id].handed = 0
                        /\ exchanges'[id].promise.value = ErrorVal("TypeError"))
                 /\ last'.thrown = "none"
                 /\ \A y \in Ids \ {id} :
                        exchanges'[y].promise = exchanges[y].promise]_vars

(* A ping whose send the transport has just refused, rejected with the     *)
(* transport's error, while a request sent earlier is live and pending.    *)
C14_Witness ==
    /\ last.op = "ping"
    /\ SendFailed(last.rid)
    /\ exchanges[last.rid].promise.value = ErrorVal("SendError")
    /\ \E y \in Ids :
          /\ exchanges[y].mode \in {"streaming", "unary"}
          /\ exchanges[y].sent /\ Registered(y) /\ Pending(y)

----------------------------------------------------------------------------
(* C15: issuing a request registers before it sends: when the call hands  *)
(* its frame to the transport its id is already a key of the registry, and *)
(* each call hands exactly one frame to the transport.                     *)
C15_EachCallHandsOneFrame ==
    \A id \in Ids :
        exchanges[id].mode # "none" =>
          (exchanges[id].handed = 1 /\ exchanges[id].atSend)

(* Frames handed to the transport so far, over all exchanges. *)
RECURSIVE SumHanded(_, _)
SumHanded(ex, S) ==
    IF S = {} THEN 0
    ELSE LET i == CHOOSE j \in S : TRUE IN ex[i].handed + SumHanded(ex, S \ {i})

(* C15, amended: no call hands more than one frame to the transport, and   *)
(* each call of sendChatCompletion or ping hands exactly one unless it     *)
(* raises before the transport is called (options that cannot be           *)
(* destructured, this.ws null, or a request JSON.stringify raises on), in  *)
(* which case it hands none and its promise is rejected with the error     *)
(* raised.  When the frame was handed over, its id was already a key of    *)
(* the registry; and the id of a sent request stays a key for as long as   *)
(* its promise is pending, so a reply to it is routed, not dropped.        *)
C15_RegistersBeforeSending ==
    /\ [](\A id \in Ids :
            exchanges[id].mode # "none" =>
              /\ exchanges[id].handed <= 1
              /\ exchanges[id].handed = 1 => exchanges[id].atSend
              /\ (exchanges[id].sent /\ Pending(id)) => Registered(id))
    /\ [][last'.op \in {"sendChatCompletion", "ping"} =>
            LET id == last'.rid
                n == SumHanded(exchanges', Ids) - SumHanded(exchanges, Ids)
                raisedBefore ==
                    \/ id = NoId
                    \/ \E e \in RaisedBeforeTransport :
                          exchanges'[id].promise.value = ErrorVal(e)
            IN  /\ n = IF raisedBefore THEN 0 ELSE 1
                /\ id = NoId =>
                      /\ last'.op = "sendChatCompletion"
                      /\ last'.type \in DestructureOutcomes \ {"ok"}
                      /\ exchanges' = exchanges
                      /\ messageHandlers' = messageHandlers
                /\ id # NoId =>
                      /\ exchanges'[id].handed = n
                      /\ n = 1 => (exchanges'[id].atSend /\ id \in messageHandlers')
                      /\ raisedBefore =>
                            (/\ ~exchanges'[id].sent
                             /\ exchanges'[id].promise.state = "rejected")]_vars

(* A streaming request and a heartbeat, each sent in one frame after its   *)
(* id was registered; the reply to the request, a chunk with "A", has just *)
(* been routed to it.                                                      *)
C15_Witness ==
    \E a, b \in Ids :
        /\ IsMode(a, "streaming") /\ IsMode(b, "heartbeat")
        /\ exchanges[a].sent /\ exchanges[a].handed = 1 /\ exchanges[a].atSend
        /\ exchanges[b].sent /\ exchanges[b].handed = 1 /\ exchanges[b].atSend
        /\ exchanges[a].routed = << <<"A">> >>
        /\ last = Event("frame", "stream_chunk", a, "none")

----------------------------------------------------------------------------
(* The frame types the handler of an exchange of the given mode has no     *)
(* branch for.                                                             *)
Meaningless(m) ==
    CASE m = "streaming" -> {"completion", "pong", "other"}
      [] m = "unary" -> {"stream_chunk", "stream_complete", "pong", "other"}
      [] m = "heartbeat" -> FrameTypes \ {"pong"}
      [] OTHER -> {}

(* C16: a frame addressed to a live exchange whose type means nothing in   *)
(* the exchange's mode (completion or pong for streaming; stream_chunk,    *)
(* stream_complete or pong for unary; anything but pong for a heartbeat)   *)
(* leaves the exchange live and unchanged, and raises nothing; the success *)
(* frame of its mode arriving next still resolves and removes it.          *)
C16_MeaninglessFrameIgnored ==
    [][\A id \in Ids :
          /\ (/\ Registered(id) /\ Pending(id)
              /\ last'.op = "frame" /\ last'.rid = id
              /\ last'.type \in Meaningless(exchanges[id].mode))
             => (/\ exchanges'[id] = exchanges[id]
                 /\ Registered(id)' /\ Pending(id)'
                 /\ last'.thrown = "none")
          /\ (/\ Registered(id) /\ Pending(id)
              /\ last.op = "frame" /\ last.rid = id
              /\ last.type \in Meaningless(exchanges[id].mode)
              /\ FrameStep(id, SuccessType(exchanges[id].mode)))
             => (/\ exchanges'[id].promise.state = "resolved"
                 /\ ~Registered(id)')]_vars

(* A live stream that accumulated "A" has just been handed a pong, next to *)
(* a live heartbeat; the stream is as it was.                              *)
C16_Witness ==
    \E a, b \in Ids :
        /\ IsMode(a, "streaming") /\ Registered(a) /\ Pending(a)
        /\ exchanges[a].fullResponse = <<"A">>
        /\ IsMode(b, "heartbeat") /\ Registered(b) /\ Pending(b)
        /\ last = Event("frame", "pong", a, "none")

----------------------------------------------------------------------------
(* C17: a streaming or unary exchange leaves the registry, and its promise *)
(* is settled, only in the handling of a frame that carries its own id and *)
(* is an error frame or the success frame of its mode.  No timer, no       *)
(* transport event, no call and no frame of another exchange removes or    *)
(* settles it: without such a frame it stays live.                         *)
C17_ChatEndsOnlyByOwnFrame ==
    [][\A id \in Ids :
          (/\ exchanges[id].mode \in {"streaming", "unary"}
           /\ \/ Registered(id) /\ ~Registered(id)'
              \/ exchanges'[id].promise # exchanges[id].promise)
          => (/\ last'.op = "frame"
              /\ last'.rid = id
              /\ last'.type \in {"error", SuccessType(exchanges[id].mode)})]_vars

(* The timer of a heartbeat has just fired and rejected it, after the      *)
(* transport was handed both frames; the unary request issued beside it is *)
(* still registered and pending.                                           *)
C17_Witness ==
    \E a, b \in Ids :
        /\ IsMode(a, "unary") /\ exchanges[a].sent
        /\ Registered(a) /\ Pending(a)
        /\ IsMode(b, "heartbeat")
        /\ exchanges[b].promise.value = TimeoutError
        /\ last = Event("timer", "", b, "none")

----------------------------------------------------------------------------
(* A frame for id without data payload, of the type whose handler branch   *)
(* reads the payload in the given mode.                                    *)
ReadsMissingData(data, id) ==
    /\ data.request_id = id
    /\ ~data.data.present
    /\ \/ IsMode(id, "streaming") /\ data.type = "stream_chunk"
       \/ IsMode(id, "unary") /\ data.type = "completion"

(* C18: when the handling of a frame for a live exchange fails, the        *)
(* exception escapes handleMessage and the exchange stays registered with  *)
(* its promise unsettled.  A stream_chunk (streaming) or completion        *)
(* (unary) frame without data payload fails so and changes nothing of the  *)
(* exchange; an observer that raises fails so after the delta was appended *)
(* to the accumulator, which keeps it.  The success frame of the mode      *)
(* arriving after the failure resolves and removes the exchange, a stream  *)
(* with the accumulated text.                                              *)
C18_FailedFrameLeavesExchangeLive ==
    /\ [](\A id \in Ids : \A data \in Frames :
            (Registered(id) /\ Pending(id)) =>
              /\ ReadsMissingData(data, id)
                 => handleMessage(Here, data, FALSE).thrown = "TypeError"
              /\ (RoutesDelta(data) /\ data.request_id = id /\ exchanges[id].onChunk)
                 => handleMessage(Here, data, TRUE).thrown = "ObserverError")
    /\ [][\A id \in Ids :
            (Registered(id) /\ Pending(id) /\ last'.op = "frame" /\ last'.rid = id) =>
              /\ last'.thrown # "none"
                 => (/\ Registered(id)' /\ Pending(id)'
                     /\ exchanges'[id].promise = exchanges[id].promise)
              /\ last'.thrown = "TypeError"
                 => exchanges'[id] = exchanges[id]
              /\ last'.thrown = "ObserverError"
                 => (/\ Len(exchanges'[id].routed) = Len(exchanges[id].routed) + 1
                     /\ LET content ==
                                exchanges'[id].routed[Len(exchanges'[id].routed)] IN
                        /\ exchanges'[id].fullResponse =
                               exchanges[id].fullResponse \o content
                        /\ exchanges'[id].observed =
                               Append(exchanges[id].observed, content))
              /\ (/\ last.op = "frame" /\ last.rid = id /\ last.thrown # "none"
                  /\ last'.type = SuccessType(exchanges[id].mode)
                  /\ last'.thrown = "none")
                 => (/\ exchanges'[id].promise.state = "resolved"
                     /\ ~Registered(id)'
                     /\ IsMode(id, "streaming")
                        => exchanges'[id].promise.value =
                               StringVal(exchanges[id].fullResponse))]_vars

(* The observer of a live stream has just raised on the delta "A", which   *)
(* the accumulator holds; the stream is still registered and pending.      *)
C18_Witness ==
    \E id \in Ids :
        /\ IsMode(id, "streaming") /\ exchanges[id].onChunk
        /\ Registered(id) /\ Pending(id)
        /\ exchanges[id].fullResponse = <<"A">>
        /\ last = Event("frame", "stream_chunk", id, "ObserverError")
====
